---- MODULE Spec2Model ----
(***************************************************************************)
(* Block builder of the Student Grievance System: the Merkle tree service  *)
(* (backend/services/merkleTreeService.js), the block service              *)
(* (backend/services/blockService.js), the SQLite tables it reads and      *)
(* writes (backend/config/sqlite.js) and the admin block routes.           *)
(*                                                                         *)
(* Hashes are terms: sha256 is modelled as an ideal, collision-free digest,*)
(* <<"sha256", preimage>>.  A preimage is either the text of a leaf        *)
(* (a sequence of character codes) or the join of two hex digests.         *)
(* Sentiment scores are held in hundredths (0.3 is 30).                    *)
(***************************************************************************)
EXTENDS Integers, Sequences, FiniteSets, TLC

VARIABLES
    now,                \* the database clock (CURRENT_TIMESTAMP), in seconds
    complaints,         \* table complaints: row id = index
    block_metadata,     \* table block_metadata: row id = index
    complaint_blocks,   \* table complaint_blocks, in insertion order
    block_creation_log, \* table block_creation_log, in insertion order
    calls,              \* per request: the position and locals of the running handler
    failures,           \* storage errors raised so far
    previewed,          \* the last preview returned, while nothing was submitted or batched since
    previewCheck,       \* <<preview, persisted stats>> taken at the block insert that followed it
    treeInput,          \* tree harness: the complaints handed to buildMerkleTree
    merkleTree,         \* tree harness: the tree built
    leafIndex,          \* tree harness: the leaf index used for the proof
    claimedLeaf,        \* tree harness: the leaf hash handed to verifyMerkleProof
    proof,              \* tree harness: the proof in hand
    isValid,            \* tree harness: the last verifyMerkleProof result
    treePhase,          \* tree harness: "input", "built", "proved", "verified", "tampered",
                        \* "reverified", "forged", "checked"
    classInput,         \* classification harness: the complaints handed to classifyComplaints
    classResult         \* classification harness: <<>> or <<the classification results>>

dbVars == <<now, complaints, block_metadata, complaint_blocks, block_creation_log,
            calls, failures, previewed, previewCheck>>
treeVars == <<treeInput, merkleTree, leafIndex, claimedLeaf, proof, isValid, treePhase>>
classVars == <<classInput, classResult>>
vars == <<now, complaints, block_metadata, complaint_blocks, block_creation_log,
          calls, failures, previewed, previewCheck,
          treeInput, merkleTree, leafIndex, claimedLeaf, proof, isValid, treePhase,
          classInput, classResult>>

(***************************************************************************)
(* Bounds of the model.                                                    *)
(***************************************************************************)
MaxComplaints == 2
MaxTime == 2
MaxFailures == 1
MaxLeaves == 13
MaxRecords == 3
MaxRecordId == 11

None == "null"        \* a null string (top_category)
NoScore == -1         \* a null ai_sentiment

(***************************************************************************)
(* Strings.  A string is a sequence of character codes; a decimal digit d  *)
(* has code d, any other character a code of 10 or more.                   *)
(***************************************************************************)
RECURSIVE toString(_)
toString(n) == IF n < 10 THEN <<n>> ELSE toString(n \div 10) \o <<n % 10>>

RECURSIVE StrLess(_, _)
StrLess(s, t) ==
    IF t = <<>> THEN FALSE
    ELSE IF s = <<>> THEN TRUE
    ELSE IF s[1] # t[1] THEN s[1] < t[1]
    ELSE StrLess(Tail(s), Tail(t))

Text(s) == <<"text", s>>
Join(a, b) == <<"join", a, b>>
sha256(preimage) == <<"sha256", preimage>>

\* The order of two hex digests as strings.  The digest is ideal, so the order is
\* any fixed total order on the terms: text digests first, then by components.
RECURSIVE HexLess(_, _)
HexLess(a, b) ==
    LET pa == a[2]
        pb == b[2]
    IN  IF pa[1] = "text" /\ pb[1] = "text" THEN StrLess(pa[2], pb[2])
        ELSE IF pa[1] = "text" THEN TRUE
        ELSE IF pb[1] = "text" THEN FALSE
        ELSE IF pa[2] # pb[2] THEN HexLess(pa[2], pb[2])
        ELSE IF pa[3] # pb[3] THEN HexLess(pa[3], pb[3])
        ELSE FALSE

(***************************************************************************)
(* MerkleTreeService                                                       *)
(***************************************************************************)
createComplaintHash(complaintId, ipfsHash, sqliteRowId) ==
    sha256(Text(complaintId \o ipfsHash \o toString(sqliteRowId)))

combineHashes_firstOnly(left, right) ==
    LET sortedHashes == IF HexLess(right, left) THEN <<right, left>> ELSE <<left, right>>
    IN  sha256(Join(sortedHashes[1], sortedHashes[1]))

combineHashes_unsorted(left, right) == sha256(Join(left, right))

combineHashes(left, right) ==
    LET sortedHashes == IF HexLess(right, left) THEN <<right, left>> ELSE <<left, right>>
    IN  sha256(Join(sortedHashes[1], sortedHashes[2]))

hashComplaint_withoutIpfs(complaint) ==
    createComplaintHash(toString(complaint.id), <<>>, complaint.id)

\* complaint.ipfs_hash || '' is the stored string (the empty string when there is
\* none); complaint.sqlite_id is never set, so the third part is complaint.id.
hashComplaint(complaint) ==
    createComplaintHash(toString(complaint.id), complaint.ipfs_hash, complaint.id)

NextLevel_promotesOdd(currentLevel) ==
    [k \in 1..((Len(currentLevel) + 1) \div 2) |->
        IF 2 * k <= Len(currentLevel)
        THEN combineHashes(currentLevel[2 * k - 1], currentLevel[2 * k])
        ELSE currentLevel[2 * k - 1]]

NextLevel(currentLevel) ==
    [k \in 1..((Len(currentLevel) + 1) \div 2) |->
        LET left == currentLevel[2 * k - 1]
            right == IF 2 * k <= Len(currentLevel) THEN currentLevel[2 * k] ELSE left
        IN  combineHashes(left, right)]

RECURSIVE BuildLevels(_)
BuildLevels(tree) ==
    LET currentLevel == tree[Len(tree)]
    IN  IF Len(currentLevel) > 1
        THEN BuildLevels(Append(tree, NextLevel(currentLevel)))
        ELSE tree

buildMerkleTree_pairsSingleLeaf(cs) ==
    LET leaves == [k \in 1..Len(cs) |->
                      [index |-> k - 1, complaintId |-> cs[k].id,
                       hash |-> createComplaintHash(toString(cs[k].id), cs[k].ipfs_hash,
                                                    cs[k].id)]]
        level0 == [k \in 1..Len(cs) |-> leaves[k].hash]
        tree == BuildLevels(<<level0, NextLevel(level0)>>)
    IN  [root |-> tree[Len(tree)][1],
         leaves |-> leaves,
         tree |-> tree,
         depth |-> Len(tree) - 1,
         leafCount |-> Len(cs)]

\* buildMerkleTree of a non-empty list; the empty list throws (see BuildTree).
buildMerkleTree(cs) ==
    LET leaves == [k \in 1..Len(cs) |->
                      [index |-> k - 1, complaintId |-> cs[k].id,
                       hash |-> createComplaintHash(toString(cs[k].id), cs[k].ipfs_hash,
                                                    cs[k].id)]]
        tree == BuildLevels(<<[k \in 1..Len(cs) |-> leaves[k].hash]>>)
    IN  [root |-> tree[Len(tree)][1],
         leaves |-> leaves,
         tree |-> tree,
         depth |-> Len(tree) - 1,
         leafCount |-> Len(cs)]

RECURSIVE ProofLoop(_, _, _, _)
ProofLoop(mt, level, currentIndex, acc) ==
    IF level < Len(mt.tree) - 1
    THEN LET currentLevelNodes == mt.tree[level + 1]
             siblingIndex == IF currentIndex % 2 = 0 THEN currentIndex + 1
                             ELSE currentIndex - 1
             acc2 == IF siblingIndex < Len(currentLevelNodes)
                     THEN Append(acc, currentLevelNodes[siblingIndex + 1])
                     ELSE acc
         IN  ProofLoop(mt, level + 1, currentIndex \div 2, acc2)
    ELSE acc

\* generateMerkleProof for a leaf index in 0..leafCount-1 (others throw).
generateMerkleProof(mt, li) == ProofLoop(mt, 0, li, <<>>)

RECURSIVE VerifyLoop(_, _, _)
VerifyLoop(p, computedHash, index) ==
    IF p = <<>> THEN computedHash
    ELSE LET siblingHash == Head(p)
             next == IF index % 2 = 0 THEN combineHashes(computedHash, siblingHash)
                     ELSE combineHashes(siblingHash, computedHash)
         IN  VerifyLoop(Tail(p), next, index \div 2)

verifyMerkleProof(p, root, leafHash, li) == VerifyLoop(p, leafHash, li) = root

RECURSIVE CeilLog2_floor(_)
CeilLog2_floor(n) == IF n <= 1 THEN 0 ELSE 1 + CeilLog2_floor(n \div 2)

\* Math.ceil(Math.log2(n)) for n >= 1
RECURSIVE CeilLog2(_)
CeilLog2(n) == IF n <= 1 THEN 0 ELSE 1 + CeilLog2((n + 1) \div 2)

validateMerkleTree(mt) ==
    LET expectedLevels == CeilLog2(mt.leafCount) + 1
        topLevel == mt.tree[Len(mt.tree)]
    IN  /\ ~(/\ Len(mt.tree) # expectedLevels
             /\ mt.leafCount > 1
             /\ (mt.leafCount # 1 \/ Len(mt.tree) # 1))
        /\ Len(topLevel) = 1
        /\ topLevel[1] = mt.root

(***************************************************************************)
(* ComplaintBlockRegistry (contracts/ComplaintBlockRegistry.sol): the      *)
(* verifier of the ledger contract.  A bytes32 value is the hex digest it  *)
(* encodes; keccak256 is a second ideal digest, distinct from sha256.      *)
(***************************************************************************)
encodePacked(a, b) == <<"packed", a, b>>
keccak256(preimage) == <<"keccak256", preimage>>

RECURSIVE registryVerifyLoop(_, _, _)
registryVerifyLoop(p, computedHash, index) ==
    IF p = <<>> THEN computedHash
    ELSE LET proofElement == Head(p)
             next == IF index % 2 = 0 THEN keccak256(encodePacked(computedHash, proofElement))
                     ELSE keccak256(encodePacked(proofElement, computedHash))
         IN  registryVerifyLoop(Tail(p), next, index \div 2)

\* verifyComplaintInBlock for a block that exists, merkleRoot being its registered root.
verifyComplaintInBlock(merkleRoot, complaintHash, merkleProof, li) ==
    registryVerifyLoop(merkleProof, complaintHash, li) = merkleRoot

(***************************************************************************)
(* BlockService: classification                                            *)
(***************************************************************************)
Categories == {"academic", "hostel"}
SubmittedSentiments == {NoScore, 60}   \* ai_sentiment of a new row; the column is nullable
ClassifierScores == {29}            \* scores the classifier may return
FallbackScore == 50                 \* generateComplaintInsights' catch: sentimentScore 0.5
IpfsHashes == {<<>>, <<81>>}        \* ipfs_hash of a complaint: empty, or "Q"
MetadataHashes == {"QmMeta"}        \* what ipfsService.uploadJSON may return
AdminIds == {1}
Calls == {"r1", "r2"}               \* two requests may be in flight

sentimentMultipliers == [critical |-> 3, high |-> 2, normal |-> 1]

getSentimentMultiplier_normalUnweighted(sentimentScore) ==
    IF sentimentScore < 30 THEN sentimentMultipliers.critical
    ELSE IF sentimentScore < 60 THEN sentimentMultipliers.high
    ELSE 0

getSentimentMultiplier(sentimentScore) ==
    IF sentimentScore < 30 THEN sentimentMultipliers.critical
    ELSE IF sentimentScore < 60 THEN sentimentMultipliers.high
    ELSE sentimentMultipliers.normal

sentimentLevel_inclusive(sentimentScore) ==
    IF sentimentScore <= 30 THEN "critical"
    ELSE IF sentimentScore <= 60 THEN "high"
    ELSE "normal"

\* The branch of classifyComplaints that tracks the sentiment distribution.
sentimentLevel(sentimentScore) ==
    IF sentimentScore < 30 THEN "critical"
    ELSE IF sentimentScore < 60 THEN "high"
    ELSE "normal"

emptyGroup(category) ==
    [category |-> category, complaints |-> <<>>, count |-> 0, totalPriorityScore |-> 0,
     averageSentiment |-> 0,
     sentimentBreakdown |-> [critical |-> 0, high |-> 0, normal |-> 0]]

groupIndex(groups, category) ==
    IF \E k \in 1..Len(groups) : groups[k].category = category
    THEN CHOOSE k \in 1..Len(groups) : groups[k].category = category
    ELSE 0

classifyOne_lastScoreOnly(res, complaint, sentimentScore) ==
    LET priorityScore == getSentimentMultiplier(sentimentScore)
        level == sentimentLevel(sentimentScore)
        found == groupIndex(res.categoryGroups, complaint.category)
        groups == IF found = 0
                  THEN Append(res.categoryGroups, emptyGroup(complaint.category))
                  ELSE res.categoryGroups
        g == IF found = 0 THEN Len(groups) ELSE found
        categoryGroup == groups[g]
        updated == [categoryGroup EXCEPT
                       !.complaints = Append(@, complaint.id),
                       !.count = @ + 1,
                       !.totalPriorityScore = priorityScore,
                       !.sentimentBreakdown[level] = @ + 1]
    IN  [res EXCEPT
            !.categoryGroups = [groups EXCEPT ![g] = updated],
            !.sentimentStats[level] = Append(@, complaint.id),
            !.processedComplaints =
                Append(@, [id |-> complaint.id, category |-> complaint.category,
                           ipfs_hash |-> complaint.ipfs_hash,
                           created_at |-> complaint.created_at,
                           ai_sentiment |-> complaint.ai_sentiment,
                           sentimentScore |-> sentimentScore,
                           sentimentMultiplier |-> priorityScore,
                           priorityScore |-> priorityScore]),
            !.totalPriorityScore = @ + priorityScore]

\* One iteration of the loop over the complaints, for a complaint whose score is known.
classifyOne(res, complaint, sentimentScore) ==
    LET priorityScore == getSentimentMultiplier(sentimentScore)
        level == sentimentLevel(sentimentScore)
        found == groupIndex(res.categoryGroups, complaint.category)
        groups == IF found = 0
                  THEN Append(res.categoryGroups, emptyGroup(complaint.category))
                  ELSE res.categoryGroups
        g == IF found = 0 THEN Len(groups) ELSE found
        categoryGroup == groups[g]
        updated == [categoryGroup EXCEPT
                       !.complaints = Append(@, complaint.id),
                       !.count = @ + 1,
                       !.totalPriorityScore = @ + priorityScore,
                       !.sentimentBreakdown[level] = @ + 1]
    IN  [res EXCEPT
            !.categoryGroups = [groups EXCEPT ![g] = updated],
            !.sentimentStats[level] = Append(@, complaint.id),
            !.processedComplaints =
                Append(@, [id |-> complaint.id, category |-> complaint.category,
                           ipfs_hash |-> complaint.ipfs_hash,
                           created_at |-> complaint.created_at,
                           ai_sentiment |-> complaint.ai_sentiment,
                           sentimentScore |-> sentimentScore,
                           sentimentMultiplier |-> priorityScore,
                           priorityScore |-> priorityScore]),
            !.totalPriorityScore = @ + priorityScore]

emptyResults ==
    [categoryGroups |-> <<>>,
     sentimentStats |-> [critical |-> <<>>, high |-> <<>>, normal |-> <<>>],
     totalPriorityScore |-> 0,
     topCategory |-> None,
     processedComplaints |-> <<>>]

RECURSIVE classifyLoop(_, _, _, _)
classifyLoop(res, cs, scores, k) ==
    IF k > Len(cs) THEN res
    ELSE classifyLoop(classifyOne(res, cs[k], scores[k]), cs, scores, k + 1)

\* averageSentiment is totalPriorityScore / count, kept as the fraction; the weighted
\* score count * averageSentiment is exact in doubles for the counts of this model.
withAverage(group) ==
    [group EXCEPT !.averageSentiment = [num |-> group.totalPriorityScore, den |-> group.count]]

weightedScore(group) ==
    (group.count * withAverage(group).averageSentiment.num)
        \div withAverage(group).averageSentiment.den

\* Category names that are array indices ("2", "7"): Object.entries lists such keys
\* first, in ascending numeric order, and the other keys after them in insertion order.
ArrayIndexKeys == [key \in {"2", "7"} |-> IF key = "2" THEN 2 ELSE 7]

isArrayIndex(key) == key \in DOMAIN ArrayIndexKeys

RECURSIVE ascending(_)
ascending(groups) ==
    IF groups = <<>> THEN <<>>
    ELSE LET m == CHOOSE k \in 1..Len(groups) :
                      \A j \in 1..Len(groups) :
                          ArrayIndexKeys[groups[k].category] <= ArrayIndexKeys[groups[j].category]
         IN  <<groups[m]>> \o ascending([k \in 1..(Len(groups) - 1) |->
                                            IF k < m THEN groups[k] ELSE groups[k + 1]])

\* Object.entries(classificationResults.categoryGroups); groups is in insertion order.
entries(groups) ==
    ascending(SelectSeq(groups, LAMBDA g : isArrayIndex(g.category)))
        \o SelectSeq(groups, LAMBDA g : ~isArrayIndex(g.category))

RECURSIVE topLoop(_, _, _, _)
topLoop(groups, k, topCategoryScore, topCategory) ==
    IF k > Len(groups) THEN topCategory
    ELSE IF weightedScore(groups[k]) > topCategoryScore
         THEN topLoop(groups, k + 1, weightedScore(groups[k]), groups[k].category)
         ELSE topLoop(groups, k + 1, topCategoryScore, topCategory)

\* classifyComplaints once every complaint has its sentiment score (scores[k] is the
\* score of cs[k]: the stored ai_sentiment, or the one generated for it).
classifyComplaints(cs, scores) ==
    LET res == classifyLoop(emptyResults, cs, scores, 1)
        groups == [k \in 1..Len(res.categoryGroups) |-> withAverage(res.categoryGroups[k])]
    IN  [res EXCEPT !.categoryGroups = groups,
                    !.topCategory = topLoop(entries(groups), 1, 0, None)]

(***************************************************************************)
(* BlockService: the queries                                               *)
(***************************************************************************)
Max(S) == CHOOSE x \in S : \A y \in S : y <= x

\* SELECT MAX(created_at) FROM block_metadata, or '1970-01-01 00:00:00' (time 0).
lastBlockTimeNow ==
    IF block_metadata = <<>> THEN 0
    ELSE Max({block_metadata[b].created_at : b \in 1..Len(block_metadata)})

inSomeBlock(complaintId) ==
    \E m \in 1..Len(complaint_blocks) : complaint_blocks[m].complaint_id = complaintId

getUnprocessedComplaints_unfiltered(lastBlockTime) == complaints

\* The second query of getUnprocessedComplaints.  Rows are inserted with the current
\* time, so the table is already in created_at order (ties in row order).
getUnprocessedComplaints(lastBlockTime) ==
    SelectSeq(complaints,
              LAMBDA c : c.created_at > lastBlockTime /\ ~inSomeBlock(c.id))

\* SELECT COALESCE(MAX(block_number), 0) + 1 FROM block_metadata
nextBlockNumber ==
    IF block_metadata = <<>> THEN 1
    ELSE Max({block_metadata[b].block_number : b \in 1..Len(block_metadata)}) + 1

(***************************************************************************)
(* Requests.  A call is one run of createBlock or getBlockCreationPreview   *)
(* behind its route; pc is the await it is suspended at.                   *)
(***************************************************************************)
idleCall ==
    [op |-> "none", pc |-> "idle", adminId |-> 0, lastBlockTime |-> 0,
     fetched |-> <<>>, scores |-> <<>>, idx |-> 0, pending |-> NoScore,
     ipfsMetadataHash |-> "", blockNumber |-> 0, blockId |-> 0, i |-> 0,
     status |-> 0, error |-> ""]

NoUnprocessedMessage == "No unprocessed complaints found. Cannot create block."

createErrorStatus_always500(message) == 500

\* The catch block of POST /create: the status answered for an error thrown by createBlock.
createErrorStatus(message) ==
    IF message = NoUnprocessedMessage THEN 400 ELSE 500

\* The route's answer: the handler is over, its locals are gone.
returned(call) ==
    [idleCall EXCEPT !.op = call.op, !.pc = "done", !.status = 200]

BlockNotFoundMessage == "Failed to fetch block details: Block not found"
NoSuchColumnMessage ==
    "Failed to fetch block details: SQLITE_ERROR: no such column: cb.block_number"

\* The catch block of GET /:blockNumber: 404 when the message includes 'not found'.
detailsErrorStatus(message) ==
    IF message = BlockNotFoundMessage THEN 404 ELSE 500

thrown(call, message) ==
    [idleCall EXCEPT !.op = call.op, !.pc = "done", !.error = message,
                     !.status = IF call.op = "create" THEN createErrorStatus(message)
                                ELSE IF call.op = "details" THEN detailsErrorStatus(message)
                                ELSE 500]

inFlight(c) == calls[c].pc \notin {"idle", "done"}

results(call) == classifyComplaints(call.fetched, call.scores)

previewOf_countsCategories(call) ==
    LET classificationResults == results(call)
        groups == classificationResults.categoryGroups
    IN  [hasComplaints |-> TRUE,
         complaintCount |-> Len(groups),
         topCategory |-> classificationResults.topCategory,
         totalPriorityScore |-> classificationResults.totalPriorityScore,
         categoryStats |-> [k \in 1..Len(groups) |->
                               [category |-> groups[k].category, count |-> groups[k].count]],
         sentimentStats |->
             [critical |-> Len(classificationResults.sentimentStats.critical),
              high |-> Len(classificationResults.sentimentStats.high),
              normal |-> Len(classificationResults.sentimentStats.normal)],
         categoryBreakdown |-> [k \in 1..Len(groups) |->
                                   [category |-> groups[k].category,
                                    count |-> groups[k].count,
                                    priorityScore |-> groups[k].totalPriorityScore,
                                    averageSentiment |-> groups[k].averageSentiment]]]

\* What getBlockCreationPreview returns when there are complaints.
previewOf(call) ==
    LET classificationResults == results(call)
        groups == classificationResults.categoryGroups
    IN  [hasComplaints |-> TRUE,
         complaintCount |-> Len(call.fetched),
         topCategory |-> classificationResults.topCategory,
         totalPriorityScore |-> classificationResults.totalPriorityScore,
         categoryStats |-> [k \in 1..Len(groups) |->
                               [category |-> groups[k].category, count |-> groups[k].count]],
         sentimentStats |->
             [critical |-> Len(classificationResults.sentimentStats.critical),
              high |-> Len(classificationResults.sentimentStats.high),
              normal |-> Len(classificationResults.sentimentStats.normal)],
         categoryBreakdown |-> [k \in 1..Len(groups) |->
                                   [category |-> groups[k].category,
                                    count |-> groups[k].count,
                                    priorityScore |-> groups[k].totalPriorityScore,
                                    averageSentiment |-> groups[k].averageSentiment]]]

firstUnscored_every(scores, k) == IF k <= Len(scores) THEN k ELSE 0

\* The next complaint, from iteration k on, whose sentimentScore is null (0: none).
firstUnscored(scores, k) ==
    IF \E j \in k..Len(scores) : scores[j] = NoScore
    THEN CHOOSE j \in k..Len(scores) :
             scores[j] = NoScore /\ \A h \in k..(j - 1) : scores[h] # NoScore
    ELSE 0

runFrom_previewPersists(call, k) ==
    LET j == firstUnscored(call.scores, k)
    IN  IF j # 0 THEN [call EXCEPT !.pc = "insights", !.idx = j]
        ELSE IF ~validateMerkleTree(buildMerkleTree(results(call).processedComplaints))
             THEN thrown(call, "Invalid Merkle tree generated")
             ELSE [call EXCEPT !.pc = "uploadJSON", !.idx = 0]

\* Run the handler from iteration k of the loop of classifyComplaints to its next await.
runFrom(call, k) ==
    LET j == firstUnscored(call.scores, k)
    IN  IF j # 0 THEN [call EXCEPT !.pc = "insights", !.idx = j]
        ELSE IF call.op = "preview" THEN returned(call)
        ELSE IF ~validateMerkleTree(buildMerkleTree(results(call).processedComplaints))
             THEN thrown(call, "Invalid Merkle tree generated")
             ELSE [call EXCEPT !.pc = "uploadJSON", !.idx = 0]

idsOf(rows) == [k \in 1..Len(rows) |-> rows[k].id]

\* What the step that takes a call from before to after leaves in previewed: the
\* preview returned, when the call is a preview that returns and the complaints it
\* fetched are still the unprocessed ones (none was submitted while it ran).
previewedAfter(before, after) ==
    IF after.pc = "done" /\ after.op = "preview" /\ after.status = 200
    THEN IF idsOf(getUnprocessedComplaints(lastBlockTimeNow)) # idsOf(before.fetched)
         THEN <<>>
         ELSE IF before.fetched = <<>> THEN <<[hasComplaints |-> FALSE]>>
         ELSE <<previewOf(before)>>
    ELSE previewed

(***************************************************************************)
(* Actions on the database                                                 *)
(***************************************************************************)
classIdle ==
    /\ classInput = <<>>
    /\ classResult = <<>>

treeIdle ==
    /\ treeInput = <<>>
    /\ merkleTree = <<>>
    /\ leafIndex = 0
    /\ claimedLeaf = <<>>
    /\ proof = <<>>
    /\ isValid = FALSE
    /\ treePhase = "off"

Init ==
    /\ now = 1
    /\ complaints = <<>>
    /\ block_metadata = <<>>
    /\ complaint_blocks = <<>>
    /\ block_creation_log = <<>>
    /\ calls = [c \in Calls |-> idleCall]
    /\ failures = 0
    /\ previewed = <<>>
    /\ previewCheck = <<>>
    /\ treeIdle
    /\ classIdle

\* A second passes on the database clock.
Tick ==
    /\ now < MaxTime
    /\ now' = now + 1
    /\ UNCHANGED <<complaints, block_metadata, complaint_blocks, block_creation_log,
                   calls, failures, previewed, previewCheck>>
    /\ UNCHANGED treeVars
    /\ UNCHANGED classVars

\* POST /api/complaints: the INSERT INTO complaints of the submission route.
SubmitComplaint(category, sentiment, ipfsHash) ==
    /\ Len(complaints) < MaxComplaints
    /\ complaints' = Append(complaints,
                            [id |-> Len(complaints) + 1, category |-> category,
                             ipfs_hash |-> ipfsHash, ai_sentiment |-> sentiment,
                             created_at |-> now])
    /\ previewed' = <<>>
    /\ UNCHANGED <<now, block_metadata, complaint_blocks, block_creation_log,
                   calls, failures, previewCheck>>
    /\ UNCHANGED treeVars
    /\ UNCHANGED classVars

\* A request arrives: createBlock(adminId) or getBlockCreationPreview() runs to its
\* first await, the query for the time of the last block.
StartCall(c, op, adminId) ==
    /\ ~inFlight(c)
    /\ calls' = [calls EXCEPT ![c] =
                    [idleCall EXCEPT !.op = op, !.pc = "lastBlockQuery", !.adminId = adminId]]
    /\ UNCHANGED <<now, complaints, block_metadata, complaint_blocks, block_creation_log,
                   failures, previewed, previewCheck>>
    /\ UNCHANGED treeVars
    /\ UNCHANGED classVars

\* getUnprocessedComplaints: the first query resolves.
LastBlockQuery(c) ==
    /\ calls[c].pc = "lastBlockQuery"
    /\ calls' = [calls EXCEPT ![c] =
                    [@ EXCEPT !.pc = "complaintsQuery", !.lastBlockTime = lastBlockTimeNow]]
    /\ UNCHANGED <<now, complaints, block_metadata, complaint_blocks, block_creation_log,
                   failures, previewed, previewCheck>>
    /\ UNCHANGED treeVars
    /\ UNCHANGED classVars

\* getUnprocessedComplaints: the second query resolves; the caller then runs on to its
\* next await (the empty-list exits, the classification of the rows that have a score).
ComplaintsQuery(c) ==
    /\ calls[c].pc = "complaintsQuery"
    /\ LET found == getUnprocessedComplaints(calls[c].lastBlockTime)
           call == [calls[c] EXCEPT
                       !.fetched = found,
                       !.scores = [k \in 1..Len(found) |-> found[k].ai_sentiment]]
           after == IF found = <<>>
                    THEN IF call.op = "create"
                         THEN thrown(call, NoUnprocessedMessage)
                         ELSE returned(call)
                    ELSE runFrom(call, 1)
       IN  /\ calls' = [calls EXCEPT ![c] = after]
           /\ previewed' = previewedAfter(call, after)
    /\ UNCHANGED <<now, complaints, block_metadata, complaint_blocks, block_creation_log,
                   failures, previewCheck>>
    /\ UNCHANGED treeVars
    /\ UNCHANGED classVars

Insights_failureThrows(c, sentimentScore) ==
    /\ calls[c].pc = "insights"
    /\ calls' = [calls EXCEPT ![c] =
                    IF sentimentScore = FallbackScore
                    THEN thrown(@, "Error generating complaint insights")
                    ELSE [@ EXCEPT !.pc = "updateSentiment", !.pending = sentimentScore]]
    /\ UNCHANGED <<now, complaints, block_metadata, complaint_blocks, block_creation_log,
                   failures, previewed, previewCheck>>
    /\ UNCHANGED treeVars
    /\ UNCHANGED classVars

\* generateComplaintInsights resolves for the complaint at idx: a score of the
\* classifier, or 0.5 from its catch block.  The UPDATE is issued next.
Insights(c, sentimentScore) ==
    /\ calls[c].pc = "insights"
    /\ calls' = [calls EXCEPT ![c] = [@ EXCEPT !.pc = "updateSentiment",
                                                !.pending = sentimentScore]]
    /\ UNCHANGED <<now, complaints, block_metadata, complaint_blocks, block_creation_log,
                   failures, previewed, previewCheck>>
    /\ UNCHANGED treeVars
    /\ UNCHANGED classVars

\* UPDATE complaints SET ai_sentiment = ? WHERE id = ? resolves; the loop goes on.
UpdateSentiment(c) ==
    /\ calls[c].pc = "updateSentiment"
    /\ LET call == calls[c]
           id == call.fetched[call.idx].id
           scored == [call EXCEPT !.scores[call.idx] = call.pending, !.pending = NoScore]
           after == runFrom(scored, call.idx + 1)
       IN  /\ complaints' = [complaints EXCEPT ![id].ai_sentiment = call.pending]
           /\ calls' = [calls EXCEPT ![c] = after]
           /\ previewed' = previewedAfter(scored, after)
    /\ UNCHANGED <<now, block_metadata, complaint_blocks, block_creation_log,
                   failures, previewCheck>>
    /\ UNCHANGED treeVars
    /\ UNCHANGED classVars

UploadJSON_failureThrows(c, ipfsMetadataHash) ==
    /\ calls[c].pc = "uploadJSON"
    /\ calls' = [calls EXCEPT ![c] =
                    IF ipfsMetadataHash = ""
                    THEN thrown(@, "IPFS upload failed")
                    ELSE [@ EXCEPT !.pc = "blockNumberQuery",
                                   !.ipfsMetadataHash = ipfsMetadataHash]]
    /\ UNCHANGED <<now, complaints, block_metadata, complaint_blocks, block_creation_log,
                   failures, previewed, previewCheck>>
    /\ UNCHANGED treeVars
    /\ UNCHANGED classVars

\* ipfsService.uploadJSON resolves with a hash, or throws and '' is kept (the
\* IPFSService class of the repository defines no uploadJSON: there the call throws
\* a TypeError, which the same catch block swallows).
UploadJSON(c, ipfsMetadataHash) ==
    /\ calls[c].pc = "uploadJSON"
    /\ calls' = [calls EXCEPT ![c] = [@ EXCEPT !.pc = "blockNumberQuery",
                                                !.ipfsMetadataHash = ipfsMetadataHash]]
    /\ UNCHANGED <<now, complaints, block_metadata, complaint_blocks, block_creation_log,
                   failures, previewed, previewCheck>>
    /\ UNCHANGED treeVars
    /\ UNCHANGED classVars

\* Step 5 of createBlock: the next block number is read.
BlockNumberQuery(c) ==
    /\ calls[c].pc = "blockNumberQuery"
    /\ calls' = [calls EXCEPT ![c] = [@ EXCEPT !.pc = "insertBlock",
                                                !.blockNumber = nextBlockNumber]]
    /\ UNCHANGED <<now, complaints, block_metadata, complaint_blocks, block_creation_log,
                   failures, previewed, previewCheck>>
    /\ UNCHANGED treeVars
    /\ UNCHANGED classVars

blockRow(call, blockId, createdAt) ==
    LET classificationResults == results(call)
        tree == buildMerkleTree(classificationResults.processedComplaints)
    IN  [id |-> blockId,
         block_number |-> call.blockNumber,
         merkle_root |-> tree.root,
         complaint_count |-> Len(call.fetched),
         total_priority_score |-> classificationResults.totalPriorityScore,
         top_category |-> classificationResults.topCategory,
         category_stats |-> classificationResults.categoryGroups,
         sentiment_stats |-> classificationResults.sentimentStats,
         created_by_admin_id |-> call.adminId,
         ipfs_metadata_hash |-> call.ipfsMetadataHash,
         created_at |-> createdAt]

\* The statistics of a block row, in the shape of a preview.
statsOfRow(row) ==
    [hasComplaints |-> TRUE,
     complaintCount |-> row.complaint_count,
     topCategory |-> row.top_category,
     totalPriorityScore |-> row.total_priority_score,
     categoryStats |-> [k \in 1..Len(row.category_stats) |->
                           [category |-> row.category_stats[k].category,
                            count |-> row.category_stats[k].count]],
     sentimentStats |-> [critical |-> Len(row.sentiment_stats.critical),
                         high |-> Len(row.sentiment_stats.high),
                         normal |-> Len(row.sentiment_stats.normal)],
     categoryBreakdown |-> [k \in 1..Len(row.category_stats) |->
                               [category |-> row.category_stats[k].category,
                                count |-> row.category_stats[k].count,
                                priorityScore |-> row.category_stats[k].totalPriorityScore,
                                averageSentiment |-> row.category_stats[k].averageSentiment]]]

blockNumberTaken_noConstraint(blockNumber) == FALSE

\* block_number INTEGER UNIQUE NOT NULL
blockNumberTaken(blockNumber) ==
    \E b \in 1..Len(block_metadata) : block_metadata[b].block_number = blockNumber

InsertBlock_overwritesFirst(c) ==
    /\ calls[c].pc = "insertBlock"
    /\ IF blockNumberTaken(calls[c].blockNumber)
       THEN /\ calls' = [calls EXCEPT ![c] =
                           thrown(@, "SQLITE_CONSTRAINT: UNIQUE constraint failed")]
            /\ UNCHANGED <<block_metadata, previewed, previewCheck>>
       ELSE LET row == blockRow(calls[c], 1, now)
            IN  /\ block_metadata' = IF block_metadata = <<>> THEN <<row>>
                                     ELSE [block_metadata EXCEPT ![1] = row]
                /\ calls' = [calls EXCEPT ![c] =
                               [@ EXCEPT !.pc = "insertMembership",
                                         !.blockId = row.id, !.i = 0]]
                /\ previewCheck' = IF previewed = <<>> THEN <<>>
                                   ELSE <<previewed[1], statsOfRow(row)>>
                /\ previewed' = <<>>
    /\ UNCHANGED <<now, complaints, complaint_blocks, block_creation_log, failures>>
    /\ UNCHANGED treeVars
    /\ UNCHANGED classVars

\* Step 6: INSERT INTO block_metadata resolves, or is rejected by UNIQUE(block_number).
InsertBlock(c) ==
    /\ calls[c].pc = "insertBlock"
    /\ IF blockNumberTaken(calls[c].blockNumber)
       THEN /\ calls' = [calls EXCEPT ![c] =
                           thrown(@, "SQLITE_CONSTRAINT: UNIQUE constraint failed")]
            /\ UNCHANGED <<block_metadata, previewed, previewCheck>>
       ELSE LET row == blockRow(calls[c], Len(block_metadata) + 1, now)
            IN  /\ block_metadata' = Append(block_metadata, row)
                /\ calls' = [calls EXCEPT ![c] =
                               [@ EXCEPT !.pc = "insertMembership",
                                         !.blockId = row.id, !.i = 0]]
                /\ previewCheck' = IF previewed = <<>> THEN <<>>
                                   ELSE <<previewed[1], statsOfRow(row)>>
                /\ previewed' = <<>>
    /\ UNCHANGED <<now, complaints, complaint_blocks, block_creation_log, failures>>
    /\ UNCHANGED treeVars
    /\ UNCHANGED classVars

membershipTaken(blockId, complaintId) ==
    \E m \in 1..Len(complaint_blocks) :
        /\ complaint_blocks[m].block_id = blockId
        /\ complaint_blocks[m].complaint_id = complaintId

InsertMembership_orderFromOne(c) ==
    /\ calls[c].pc = "insertMembership"
    /\ LET call == calls[c]
           processedComplaints == results(call).processedComplaints
           complaint == processedComplaints[call.i + 1]
       IN  IF membershipTaken(call.blockId, complaint.id)
           THEN /\ calls' = [calls EXCEPT ![c] =
                               thrown(@, "SQLITE_CONSTRAINT: UNIQUE constraint failed")]
                /\ UNCHANGED complaint_blocks
           ELSE /\ complaint_blocks' =
                       Append(complaint_blocks,
                              [block_id |-> call.blockId, complaint_id |-> complaint.id,
                               complaint_hash |-> hashComplaint(complaint),
                               inclusion_order |-> call.i + 1])
                /\ calls' = [calls EXCEPT ![c] =
                               [@ EXCEPT !.i = call.i + 1,
                                         !.pc = IF call.i + 1 < Len(processedComplaints)
                                                THEN "insertMembership" ELSE "insertLog"]]
    /\ UNCHANGED <<now, complaints, block_metadata, block_creation_log,
                   failures, previewed, previewCheck>>
    /\ UNCHANGED treeVars
    /\ UNCHANGED classVars

\* Step 7: the i-th INSERT INTO complaint_blocks resolves (or is rejected by
\* UNIQUE(block_id, complaint_id)); after the last one the log insert is issued.
InsertMembership(c) ==
    /\ calls[c].pc = "insertMembership"
    /\ LET call == calls[c]
           processedComplaints == results(call).processedComplaints
           complaint == processedComplaints[call.i + 1]
       IN  IF membershipTaken(call.blockId, complaint.id)
           THEN /\ calls' = [calls EXCEPT ![c] =
                               thrown(@, "SQLITE_CONSTRAINT: UNIQUE constraint failed")]
                /\ UNCHANGED complaint_blocks
           ELSE /\ complaint_blocks' =
                       Append(complaint_blocks,
                              [block_id |-> call.blockId, complaint_id |-> complaint.id,
                               complaint_hash |-> hashComplaint(complaint),
                               inclusion_order |-> call.i])
                /\ calls' = [calls EXCEPT ![c] =
                               [@ EXCEPT !.i = call.i + 1,
                                         !.pc = IF call.i + 1 < Len(processedComplaints)
                                                THEN "insertMembership" ELSE "insertLog"]]
    /\ UNCHANGED <<now, complaints, block_metadata, block_creation_log,
                   failures, previewed, previewCheck>>
    /\ UNCHANGED treeVars
    /\ UNCHANGED classVars

\* Step 8: INSERT INTO block_creation_log resolves and createBlock returns.
InsertLog(c) ==
    /\ calls[c].pc = "insertLog"
    /\ LET call == calls[c]
           classificationResults == results(call)
           tree == buildMerkleTree(classificationResults.processedComplaints)
       IN  /\ block_creation_log' =
                   Append(block_creation_log,
                          [admin_id |-> call.adminId, block_id |-> call.blockId,
                           complaints_processed |-> Len(call.fetched),
                           merkle_tree_depth |-> tree.depth])
           /\ calls' = [calls EXCEPT ![c] = returned(@)]
    /\ UNCHANGED <<now, complaints, block_metadata, complaint_blocks,
                   failures, previewed, previewCheck>>
    /\ UNCHANGED treeVars
    /\ UNCHANGED classVars

\* The block numbers asked for: 0 is not a valid number, the others may or may not exist.
BlockNumbers == 0..MaxComplaints

\* GET /:blockNumber arrives: a number below 1 is answered 400, otherwise
\* getBlockDetails(blockNumber) runs to its first await, the query for the block row.
StartDetails(c, blockNumber) ==
    /\ ~inFlight(c)
    /\ calls' = [calls EXCEPT ![c] =
                    IF blockNumber < 1
                    THEN [idleCall EXCEPT !.op = "details", !.pc = "done", !.status = 400,
                                          !.error = "Invalid block number"]
                    ELSE [idleCall EXCEPT !.op = "details", !.pc = "blockQuery",
                                          !.blockNumber = blockNumber]]
    /\ UNCHANGED <<now, complaints, block_metadata, complaint_blocks, block_creation_log,
                   failures, previewed, previewCheck>>
    /\ UNCHANGED treeVars
    /\ UNCHANGED classVars

\* SELECT bm.* ... FROM block_metadata bm ... WHERE bm.block_number = ?
blockData(blockNumber) ==
    SelectSeq(block_metadata, LAMBDA row : row.block_number = blockNumber)

\* getBlockDetails: the block query resolves; no row throws 'Block N not found',
\* otherwise the query for the complaints of the block is issued.
BlockQuery(c) ==
    /\ calls[c].pc = "blockQuery"
    /\ calls' = [calls EXCEPT ![c] =
                    IF Len(blockData(@.blockNumber)) = 0
                    THEN thrown(@, BlockNotFoundMessage)
                    ELSE [@ EXCEPT !.pc = "membersQuery"]]
    /\ UNCHANGED <<now, complaints, block_metadata, complaint_blocks, block_creation_log,
                   failures, previewed, previewCheck>>
    /\ UNCHANGED treeVars
    /\ UNCHANGED classVars

\* getBlockDetails: the complaints query selects WHERE cb.block_number = ?, a column
\* complaint_blocks does not have: the statement is rejected, the method rethrows.
MembersQuery(c) ==
    /\ calls[c].pc = "membersQuery"
    /\ calls' = [calls EXCEPT ![c] = thrown(@, NoSuchColumnMessage)]
    /\ UNCHANGED <<now, complaints, block_metadata, complaint_blocks, block_creation_log,
                   failures, previewed, previewCheck>>
    /\ UNCHANGED treeVars
    /\ UNCHANGED classVars

\* The pending query is rejected with an error (or the run is aborted there): the
\* handlers rethrow, the route answers 500, and nothing written so far is undone.
StorageError(c) ==
    /\ calls[c].pc \in {"lastBlockQuery", "complaintsQuery", "updateSentiment",
                        "blockNumberQuery", "insertBlock", "insertMembership", "insertLog",
                        "blockQuery"}
    /\ failures < MaxFailures
    /\ failures' = failures + 1
    /\ calls' = [calls EXCEPT ![c] = thrown(@, "SQLITE_ERROR")]
    /\ UNCHANGED <<now, complaints, block_metadata, complaint_blocks, block_creation_log,
                   previewed, previewCheck>>
    /\ UNCHANGED treeVars
    /\ UNCHANGED classVars

Step(c) ==
    \/ LastBlockQuery(c)
    \/ ComplaintsQuery(c)
    \/ \E s \in ClassifierScores \cup {FallbackScore} : Insights(c, s)
    \/ UpdateSentiment(c)
    \/ \E h \in MetadataHashes \cup {""} : UploadJSON(c, h)
    \/ BlockNumberQuery(c)
    \/ InsertBlock(c)
    \/ InsertMembership(c)
    \/ InsertLog(c)
    \/ StorageError(c)

Submit ==
    \E category \in Categories, sentiment \in SubmittedSentiments, ipfsHash \in IpfsHashes :
        SubmitComplaint(category, sentiment, ipfsHash)

DetailsStep(c) ==
    \/ BlockQuery(c)
    \/ MembersQuery(c)

\* Two requests for a block are served concurrently, each handler yielding at every
\* await.  The complaints submitted here differ in their stored sentiment only.
Next ==
    \/ Tick
    \/ \E sentiment \in SubmittedSentiments : SubmitComplaint("academic", sentiment, <<81>>)
    \/ \E c \in Calls, a \in AdminIds : calls[c].pc = "idle" /\ StartCall(c, "create", a)
    \/ \E c \in Calls : Step(c)

Spec == Init /\ [][Next]_vars

\* Requests for a block, a preview or the details of a block arrive one at a time: a
\* call starts only when none is in flight.
NextSeq ==
    \/ Tick
    \/ Submit
    \/ \E op \in {"create", "preview"}, a \in AdminIds :
           (\A d \in Calls : ~inFlight(d)) /\ StartCall("r1", op, a)
    \/ \E blockNumber \in BlockNumbers :
           (\A d \in Calls : ~inFlight(d)) /\ StartDetails("r1", blockNumber)
    \/ Step("r1")
    \/ DetailsStep("r1")

SpecSeq == Init /\ [][NextSeq]_vars

(***************************************************************************)
(* The Merkle tree service on its own: a tree is built from treeInput, a   *)
(* proof is generated for one leaf and verified, then one element of the   *)
(* proof is replaced and the proof is verified again.                      *)
(***************************************************************************)
\* The complaints handed to buildMerkleTree: ids 1..n, each with a stored ipfs hash.
treeComplaints(n, ipfsHash) ==
    [k \in 1..n |-> [id |-> k, ipfs_hash |-> ipfsHash]]

\* Hashes an outsider can put into a proof: every node of the tree, and the leaves
\* of complaints that are not in it.
knownHashes ==
    IF merkleTree = <<>> THEN {}
    ELSE UNION {{merkleTree[1].tree[l][k] : k \in 1..Len(merkleTree[1].tree[l])} :
                   l \in 1..Len(merkleTree[1].tree)}
         \cup {hashComplaint([id |-> Len(treeInput) + 1, ipfs_hash |-> <<>>]),
               hashComplaint([id |-> Len(treeInput) + 2, ipfs_hash |-> <<81>>])}

InitTree ==
    /\ now = 1
    /\ complaints = <<>>
    /\ block_metadata = <<>>
    /\ complaint_blocks = <<>>
    /\ block_creation_log = <<>>
    /\ calls = [c \in Calls |-> idleCall]
    /\ failures = 0
    /\ previewed = <<>>
    /\ previewCheck = <<>>
    /\ \E n \in 1..MaxLeaves, ipfsHash \in IpfsHashes : treeInput = treeComplaints(n, ipfsHash)
    /\ merkleTree = <<>>
    /\ leafIndex = 0
    /\ claimedLeaf = <<>>
    /\ proof = <<>>
    /\ isValid = FALSE
    /\ treePhase = "input"
    /\ classIdle

BuildTree ==
    /\ treePhase = "input"
    /\ merkleTree' = <<buildMerkleTree(treeInput)>>
    /\ treePhase' = "built"
    /\ UNCHANGED <<treeInput, leafIndex, claimedLeaf, proof, isValid>>
    /\ UNCHANGED dbVars
    /\ UNCHANGED classVars

GenerateProof(li) ==
    /\ treePhase = "built"
    /\ leafIndex' = li
    /\ claimedLeaf' = merkleTree[1].leaves[li + 1].hash
    /\ proof' = generateMerkleProof(merkleTree[1], li)
    /\ treePhase' = "proved"
    /\ UNCHANGED <<treeInput, merkleTree, isValid>>
    /\ UNCHANGED dbVars
    /\ UNCHANGED classVars

\* verifyMerkleProof on the proof and the leaf hash in hand, against the root of the tree.
VerifyProof ==
    /\ treePhase \in {"proved", "tampered", "forged"}
    /\ isValid' = verifyMerkleProof(proof, merkleTree[1].root, claimedLeaf, leafIndex)
    /\ treePhase' = IF treePhase = "proved" THEN "verified"
                    ELSE IF treePhase = "tampered" THEN "reverified"
                    ELSE "checked"
    /\ UNCHANGED <<treeInput, merkleTree, leafIndex, claimedLeaf, proof>>
    /\ UNCHANGED dbVars
    /\ UNCHANGED classVars

\* One element of a proof that verified is replaced by a different hash.
TamperProof(k, h) ==
    /\ treePhase = "verified"
    /\ isValid
    /\ k \in 1..Len(proof)
    /\ h # proof[k]
    /\ proof' = [proof EXCEPT ![k] = h]
    /\ treePhase' = "tampered"
    /\ UNCHANGED <<treeInput, merkleTree, leafIndex, claimedLeaf, isValid>>
    /\ UNCHANGED dbVars
    /\ UNCHANGED classVars

\* A caller hands verifyMerkleProof a hash of its choice as the leaf hash, with the
\* proof in hand cut short by its first k elements.
ForgeProof(x, k) ==
    /\ treePhase = "verified"
    /\ k \in 0..Len(proof)
    /\ claimedLeaf' = x
    /\ proof' = SubSeq(proof, k + 1, Len(proof))
    /\ treePhase' = "forged"
    /\ UNCHANGED <<treeInput, merkleTree, leafIndex, isValid>>
    /\ UNCHANGED dbVars
    /\ UNCHANGED classVars

NextTree ==
    \/ BuildTree
    \/ \E li \in 0..(Len(treeInput) - 1) : GenerateProof(li)
    \/ VerifyProof
    \/ \E k \in 1..Len(proof), h \in knownHashes : TamperProof(k, h)
    \/ \E k \in 0..Len(proof), x \in knownHashes : ForgeProof(x, k)

SpecTree == InitTree /\ [][NextTree]_vars

(***************************************************************************)
(* The leaf hashes on their own: a tree is built from two complaints with  *)
(* any ids and any stored ipfs hashes, digits included.                    *)
(***************************************************************************)
LeafRefs == {<<>>, <<1>>, <<1, 1>>, <<81>>}    \* ipfs_hash: "", "1", "11", "Q"

InitLeaf ==
    /\ now = 1
    /\ complaints = <<>>
    /\ block_metadata = <<>>
    /\ complaint_blocks = <<>>
    /\ block_creation_log = <<>>
    /\ calls = [c \in Calls |-> idleCall]
    /\ failures = 0
    /\ previewed = <<>>
    /\ previewCheck = <<>>
    /\ \E id1, id2 \in 1..MaxRecordId, ref1, ref2 \in LeafRefs :
           /\ id1 < id2
           /\ treeInput = <<[id |-> id1, ipfs_hash |-> ref1], [id |-> id2, ipfs_hash |-> ref2]>>
    /\ merkleTree = <<>>
    /\ leafIndex = 0
    /\ claimedLeaf = <<>>
    /\ proof = <<>>
    /\ isValid = FALSE
    /\ treePhase = "input"
    /\ classIdle

NextLeaf == BuildTree

SpecLeaf == InitLeaf /\ [][NextLeaf]_vars

(***************************************************************************)
(* classifyComplaints on its own: a list of complaints that all have their *)
(* sentiment score is classified.                                          *)
(***************************************************************************)
ClassCategories == {"hostel", "7", "2"}
SeverityScores == {10, 29, 30, 40, 59, 60, 80}

\* The complaints handed to classifyComplaints: ids 1..n in the order fetched.
classComplaints(categories, scores) ==
    [k \in 1..Len(scores) |->
        [id |-> k, category |-> categories[k], ipfs_hash |-> <<>>,
         ai_sentiment |-> scores[k], created_at |-> 1]]

InitClassify ==
    /\ now = 1
    /\ complaints = <<>>
    /\ block_metadata = <<>>
    /\ complaint_blocks = <<>>
    /\ block_creation_log = <<>>
    /\ calls = [c \in Calls |-> idleCall]
    /\ failures = 0
    /\ previewed = <<>>
    /\ previewCheck = <<>>
    /\ treeIdle
    /\ \E n \in 1..MaxRecords :
           \E categories \in [1..n -> ClassCategories], scores \in [1..n -> SeverityScores] :
               classInput = classComplaints(categories, scores)
    /\ classResult = <<>>

Classify ==
    /\ classResult = <<>>
    /\ classResult' = <<classifyComplaints(classInput,
                                           [k \in 1..Len(classInput) |->
                                               classInput[k].ai_sentiment])>>
    /\ UNCHANGED classInput
    /\ UNCHANGED dbVars
    /\ UNCHANGED treeVars

NextClassify == Classify

SpecClassify == InitClassify /\ [][NextClassify]_vars

(***************************************************************************)
(* Claims about batch creation                                             *)
(***************************************************************************)
memberships(blockId) ==
    {m \in 1..Len(complaint_blocks) : complaint_blocks[m].block_id = blockId}

\* A block whose createBlock run returned: the log row is its last write.
logged(blockId) ==
    \E l \in 1..Len(block_creation_log) : block_creation_log[l].block_id = blockId

\* C1: with createBlock runs one after the other and complaints submitted in between,
\* no complaint id is in the membership rows of two blocks, and a run never fetches a
\* complaint that already has a membership row (the rows a fetched complaint has
\* are the ones this run wrote).
C1_Exclusivity ==
    /\ \A m1, m2 \in 1..Len(complaint_blocks) :
           complaint_blocks[m1].complaint_id = complaint_blocks[m2].complaint_id
               => complaint_blocks[m1].block_id = complaint_blocks[m2].block_id
    /\ \A c \in Calls : \A k \in 1..Len(calls[c].fetched) :
           \A m \in 1..Len(complaint_blocks) :
               complaint_blocks[m].complaint_id = calls[c].fetched[k].id
                   => /\ calls[c].pc \in {"insertMembership", "insertLog"}
                      /\ complaint_blocks[m].block_id = calls[c].blockId

C1_Witness ==
    /\ Len(block_metadata) >= 2
    /\ logged(1) /\ logged(2)
    /\ memberships(1) # {} /\ memberships(2) # {}

\* C2: two createBlock calls never both succeed with some complaint id a member of
\* both resulting blocks.
C2_ConcurrentCreateSerialized ==
    \A m1, m2 \in 1..Len(complaint_blocks) :
        (/\ complaint_blocks[m1].complaint_id = complaint_blocks[m2].complaint_id
         /\ complaint_blocks[m1].block_id # complaint_blocks[m2].block_id)
            => ~(logged(complaint_blocks[m1].block_id) /\ logged(complaint_blocks[m2].block_id))

\* C3: when a createBlock run fails after its block row went in and before its last
\* membership insert completes, no block row and no membership row of the run remains.
C3_Atomicity ==
    [][\A c \in Calls :
          (/\ calls[c].pc = "insertMembership"
           /\ calls'[c].pc = "done"
           /\ calls'[c].status = 500)
              => /\ \A b \in 1..Len(block_metadata') :
                        block_metadata'[b].id # calls[c].blockId
                 /\ \A m \in 1..Len(complaint_blocks') :
                        complaint_blocks'[m].block_id # calls[c].blockId]_vars

\* C4: the block numbers of the block rows are exactly 1..n, in insertion order: the
\* first block gets 1 and each new block 1 + the maximum, with no duplicate and no gap.
C4_BatchNumbering ==
    \A b \in 1..Len(block_metadata) : block_metadata[b].block_number = b

\* Two runs read the same next number; the second insert is rejected.
C4_Witness ==
    /\ Len(block_metadata) >= 1
    /\ \E c \in Calls :
           /\ calls[c].pc = "done"
           /\ calls[c].error = "SQLITE_CONSTRAINT: UNIQUE constraint failed"

\* C5: in every state, each block row's complaint_count is at least 1 and equals the
\* number of membership rows of that block.
C5_RecordCount ==
    \A b \in 1..Len(block_metadata) :
        /\ block_metadata[b].complaint_count >= 1
        /\ block_metadata[b].complaint_count = Cardinality(memberships(block_metadata[b].id))

\* The complaint_hash values of a block's membership rows, by inclusion_order.
memberHashes(blockId) ==
    [k \in 1..Cardinality(memberships(blockId)) |->
        complaint_blocks[CHOOSE m \in memberships(blockId) :
                            complaint_blocks[m].inclusion_order = k - 1].complaint_hash]

\* C6: for every block of a createBlock run that returned, the tree rebuilt from the
\* complaint_hash values of its membership rows in inclusion_order has the stored root.
C6_RootReproducible ==
    \A b \in 1..Len(block_metadata) :
        logged(block_metadata[b].id)
            => LET hashes == memberHashes(block_metadata[b].id)
                   tree == BuildLevels(<<hashes>>)
               IN  /\ Len(hashes) = block_metadata[b].complaint_count
                   /\ tree[Len(tree)][1] = block_metadata[b].merkle_root

C6_Witness ==
    \E b \in 1..Len(block_metadata) :
        /\ logged(block_metadata[b].id)
        /\ Cardinality(memberships(block_metadata[b].id)) >= 2
        /\ \E m \in memberships(block_metadata[b].id) :
               complaints[complaint_blocks[m].complaint_id].ipfs_hash # <<>>

tablesUnchanged ==
    UNCHANGED <<complaints, block_metadata, complaint_blocks, block_creation_log>>

\* C16: a request for the details of a block is answered 404 (not found) exactly
\* when no block row has the number asked for, and when a row has it the request is
\* answered 200, with the block and its membership rows in inclusion order.
C16_BatchDetail ==
    [][\A c \in Calls :
          /\ (/\ calls[c].pc = "blockQuery"
               /\ calls'[c] # calls[c]
               /\ calls'[c].error # "SQLITE_ERROR")
                  => ((calls'[c].pc = "done" /\ calls'[c].status = 404)
                         <=> ~\E b \in 1..Len(block_metadata) :
                                 block_metadata[b].block_number = calls[c].blockNumber)
          /\ (/\ calls[c].pc = "membersQuery"
               /\ calls'[c] # calls[c])
                  => /\ calls'[c].pc = "done"
                     /\ calls'[c].status = 200
                     /\ calls'[c].error = ""]_vars

\* The calls that are past classification and validation, up to their last insert.
persisting(c) ==
    calls[c].pc \in {"uploadJSON", "blockNumberQuery", "insertBlock", "insertMembership",
                     "insertLog"}

\* C17: when the classifier fails for a fetched complaint without a score, the run is
\* not ended: the complaint gets the score 0.5, which is stored, and the loop goes on
\* with the remaining complaints; the classification a run persists covers every
\* fetched complaint, a complaint scored 0.5 counting as high with weight 2, and the
\* block of a run that returned has a membership row for every fetched complaint.
C17_ClassifierFailureIsolated ==
    /\ [](\A c \in Calls :
              persisting(c)
                  => LET res == results(calls[c])
                     IN  /\ idsOf(res.processedComplaints) = idsOf(calls[c].fetched)
                         /\ \A k \in 1..Len(res.processedComplaints) :
                                res.processedComplaints[k].sentimentScore = FallbackScore
                                    => /\ res.processedComplaints[k].priorityScore = 2
                                       /\ \E h \in 1..Len(res.sentimentStats.high) :
                                              res.sentimentStats.high[h] =
                                                  res.processedComplaints[k].id
                         /\ calls[c].pc = "insertLog"
                                => {complaint_blocks[m].complaint_id :
                                        m \in memberships(calls[c].blockId)}
                                   = {calls[c].fetched[k].id : k \in 1..Len(calls[c].fetched)})
    /\ [][\A c \in Calls :
              /\ (calls[c].pc = "insights" /\ calls'[c] # calls[c])
                     => /\ calls'[c].pc = "updateSentiment"
                        /\ calls'[c].error = ""
                        /\ calls'[c].pending \in ClassifierScores \cup {FallbackScore}
                        /\ calls'[c].fetched = calls[c].fetched
              /\ (/\ calls[c].pc = "updateSentiment"
                   /\ calls[c].pending = FallbackScore
                   /\ calls'[c] # calls[c]
                   /\ calls'[c].error # "SQLITE_ERROR")
                     => /\ complaints'[calls[c].fetched[calls[c].idx].id].ai_sentiment
                               = FallbackScore
                        /\ calls'[c].error = ""
                        /\ calls[c].op = "create"
                               => /\ calls'[c].pc \in {"insights", "uploadJSON"}
                                  /\ calls'[c].fetched = calls[c].fetched
                                  /\ calls'[c].scores[calls[c].idx] = FallbackScore
                                  /\ calls'[c].pc = "insights" => calls'[c].idx > calls[c].idx
          ]_vars

\* A run classified one complaint with the fallback score and another with a score
\* of the classifier, and returned with both in its block.
C17_Witness ==
    \E b \in 1..Len(block_metadata) :
        /\ logged(block_metadata[b].id)
        /\ Len(block_metadata[b].sentiment_stats.high) >= 1
        /\ Len(block_metadata[b].sentiment_stats.critical) >= 1
        /\ Cardinality(memberships(block_metadata[b].id)) = 2
        /\ \E m \in memberships(block_metadata[b].id) :
               complaints[complaint_blocks[m].complaint_id].ai_sentiment = FallbackScore

\* C18: a failed upload of the metadata does not end the run and changes nothing but
\* the stored metadata hash, which is then the empty string: the block row a run
\* inserts has the root, count, number and statistics computed from what it fetched,
\* and the metadata hash the upload left; a run that returned has all its membership rows.
C18_BestEffortPublish ==
    /\ [](\A c \in Calls :
              calls[c].pc \in {"insertMembership", "insertLog"}
                  => LET row == block_metadata[calls[c].blockId]
                         res == results(calls[c])
                     IN  /\ row.ipfs_metadata_hash = calls[c].ipfsMetadataHash
                         /\ row.ipfs_metadata_hash \in MetadataHashes \cup {""}
                         /\ row.merkle_root = buildMerkleTree(res.processedComplaints).root
                         /\ row.complaint_count = Len(calls[c].fetched)
                         /\ row.block_number = calls[c].blockNumber
                         /\ row.top_category = res.topCategory
                         /\ row.total_priority_score = res.totalPriorityScore
                         /\ row.category_stats = res.categoryGroups
                         /\ row.sentiment_stats = res.sentimentStats
                         /\ calls[c].pc = "insertLog"
                                => Cardinality(memberships(row.id)) = row.complaint_count)
    /\ [][\A c \in Calls :
              (calls[c].pc = "uploadJSON" /\ calls'[c] # calls[c])
                  => /\ calls'[c].pc = "blockNumberQuery"
                     /\ calls'[c].error = ""
                     /\ calls'[c] = [calls[c] EXCEPT
                                        !.pc = "blockNumberQuery",
                                        !.ipfsMetadataHash = calls'[c].ipfsMetadataHash]
          ]_vars

\* A run whose upload failed returned: its block has the empty metadata hash and
\* all its membership rows.
C18_Witness ==
    \E b \in 1..Len(block_metadata) :
        /\ logged(block_metadata[b].id)
        /\ block_metadata[b].ipfs_metadata_hash = ""
        /\ block_metadata[b].complaint_count = 2
        /\ Cardinality(memberships(block_metadata[b].id)) = 2
        /\ \E c \in Calls : calls[c].op = "create" /\ calls[c].pc = "done"
                             /\ calls[c].status = 200

C23_MembershipRows ==
    /\ \A c \in Calls :
           calls[c].pc \in {"insertMembership", "insertLog"}
               => /\ Cardinality(memberships(calls[c].blockId)) = calls[c].i
                  /\ calls[c].pc = "insertLog" => calls[c].i = Len(calls[c].fetched)
                  /\ \A m \in memberships(calls[c].blockId) :
                         /\ complaint_blocks[m].inclusion_order < calls[c].i
                         /\ complaint_blocks[m].complaint_id
                                = calls[c].fetched[complaint_blocks[m].inclusion_order + 1].id
    /\ \A b \in 1..Len(block_metadata) :
           /\ \A m1, m2 \in memberships(block_metadata[b].id) :
                  m1 < m2
                      => /\ complaint_blocks[m1].inclusion_order
                                < complaint_blocks[m2].inclusion_order
                         /\ complaint_blocks[m1].complaint_id # complaint_blocks[m2].complaint_id
           /\ logged(block_metadata[b].id)
                  => {complaint_blocks[m].inclusion_order : m \in memberships(block_metadata[b].id)}
                         = 0..(block_metadata[b].complaint_count - 1)

C23_Witness ==
    /\ logged(1)
    /\ {<<complaint_blocks[m].complaint_id, complaint_blocks[m].inclusion_order>> :
            m \in memberships(1)} = {<<1, 0>>, <<2, 1>>}
    /\ \E c \in Calls : calls[c].pc = "done" /\ calls[c].status = 200

\* C24: no step changes or removes the block row or a membership row of a block
\* whose createBlock run has returned, and no step adds a membership row to it.
C24_BatchImmutable ==
    [][\A b \in 1..Len(block_metadata) :
          logged(block_metadata[b].id)
              => /\ Len(block_metadata') >= b
                 /\ block_metadata'[b] = block_metadata[b]
                 /\ {complaint_blocks'[m] : m \in {n \in 1..Len(complaint_blocks') :
                         complaint_blocks'[n].block_id = block_metadata[b].id}}
                        = {complaint_blocks[m] : m \in memberships(block_metadata[b].id)}
      ]_vars

\* After the run of block 1 returned, a complaint was submitted and a preview ran.
C24_Witness ==
    /\ logged(1)
    /\ Len(complaints) = 2
    /\ ~inSomeBlock(2)
    /\ complaints[2].created_at > block_metadata[1].created_at
    /\ \E c \in Calls : calls[c].op = "preview" /\ calls[c].pc = "done"
                         /\ calls[c].status = 200

\* The ids of the complaints a fetch issued now would return.
pendingIds == idsOf(getUnprocessedComplaints(lastBlockTimeNow))

C27_NoStrandedRecord ==
    (\A c \in Calls : ~inFlight(c))
        => \A id \in 1..Len(complaints) :
               ~inSomeBlock(id) => \E k \in 1..Len(pendingIds) : pendingIds[k] = id

\* C9: a createBlock run whose fetch finds no unprocessed complaint ends with the
\* "no unprocessed complaints" error, answered 400, and neither the fetch nor the
\* exit changes a complaint, block, membership or log row.
C9_NoPendingRecords ==
    [][\A c \in Calls :
          /\ (/\ calls[c].op = "create"
               /\ calls[c].pc = "complaintsQuery"
               /\ getUnprocessedComplaints(calls[c].lastBlockTime) = <<>>
               /\ calls'[c] # calls[c]
               /\ calls'[c].error # "SQLITE_ERROR")
                  => /\ calls'[c].pc = "done"
                     /\ calls'[c].error = NoUnprocessedMessage
                     /\ calls'[c].status = 400
                     /\ tablesUnchanged
          /\ (/\ calls[c].op = "create"
               /\ calls[c].pc = "lastBlockQuery"
               /\ calls'[c] # calls[c])
                  => tablesUnchanged]_vars

C9_Witness ==
    /\ Len(block_metadata) >= 1
    /\ \E c \in Calls :
           /\ calls[c].op = "create"
           /\ calls[c].pc = "done"
           /\ calls[c].status = 400

\* C10: the count, top category, total priority score, per-category statistics and
\* per-level counts of a preview equal those of the block row inserted by the next
\* createBlock run, when no complaint was submitted and no block inserted in between.
C10_PreviewEquivalence ==
    previewCheck # <<>> => previewCheck[1] = previewCheck[2]

C10_Witness ==
    /\ previewCheck # <<>>
    /\ previewCheck[2].complaintCount >= 2
    /\ Len(previewCheck[2].categoryStats) >= 2
    /\ previewCheck[2].sentimentStats.critical >= 1

(***************************************************************************)
(* Claims about the Merkle tree service (checked under SpecTree)           *)
(***************************************************************************)
\* C7: for a tree of 1, 2, 3, 5, 8 or 13 leaves and every leaf index i, the proof
\* generated for leaf i verifies against the root, for leaf i at index i.
C7_ProofRoundTrip ==
    (treePhase = "verified" /\ Len(treeInput) \in {1, 2, 3, 5, 8, 13}) => isValid

\* C8: a proof that verified no longer verifies once any single element of it has
\* been replaced by a different hash.
C8_TamperDetected ==
    treePhase = "reverified" => ~isValid

C8_Witness ==
    /\ treePhase = "reverified"
    /\ Len(proof) >= 3
    /\ ~isValid

\* C14: a tree of one complaint has the complaint's hash as its root, depth 0 and a
\* single level holding that hash (nothing is combined); the proof for leaf 0 is empty
\* and verifies.
C14_SingleLeaf ==
    Len(treeInput) = 1
        => /\ merkleTree # <<>>
                => /\ merkleTree[1].root = hashComplaint(treeInput[1])
                   /\ merkleTree[1].root = merkleTree[1].leaves[1].hash
                   /\ merkleTree[1].depth = 0
                   /\ merkleTree[1].tree = <<(<<merkleTree[1].root>>)>>
           /\ treePhase \in {"proved", "verified"} => proof = <<>>
           /\ treePhase = "verified" => isValid

C14_Witness ==
    /\ Len(treeInput) = 1
    /\ treePhase = "verified"
    /\ proof = <<>>
    /\ isValid

\* C15: in a built tree, level l+1 has ceil(len/2) nodes and its node k is the
\* combination of the nodes 2k-1 and 2k of level l, the last node of an odd-length
\* level being combined with itself; the bottom level is the leaf hashes, the top
\* level is the root alone, and depth is the number of levels minus one.
C15_LevelInvariant ==
    merkleTree # <<>>
        => LET tree == merkleTree[1].tree
           IN  /\ tree[1] = [k \in 1..Len(treeInput) |-> hashComplaint(treeInput[k])]
               /\ tree[Len(tree)] = <<merkleTree[1].root>>
               /\ merkleTree[1].depth = Len(tree) - 1
               /\ \A l \in 1..(Len(tree) - 1) :
                      /\ Len(tree[l]) > 1
                      /\ Len(tree[l + 1]) = (Len(tree[l]) + 1) \div 2
                      /\ \A k \in 1..Len(tree[l + 1]) :
                             tree[l + 1][k] =
                                 combineHashes(tree[l][2 * k - 1],
                                               IF 2 * k <= Len(tree[l]) THEN tree[l][2 * k]
                                               ELSE tree[l][2 * k - 1])

\* build([a, b, c]) has the root combine(combine(a, b), combine(c, c)).
C15_Witness ==
    /\ Len(treeInput) = 3
    /\ merkleTree # <<>>
    /\ merkleTree[1].root =
           combineHashes(combineHashes(hashComplaint(treeInput[1]), hashComplaint(treeInput[2])),
                         combineHashes(hashComplaint(treeInput[3]), hashComplaint(treeInput[3])))

\* C19: the proof generated for a leaf has exactly depth elements.
C19_ProofLength ==
    treePhase = "proved" => Len(proof) = merkleTree[1].depth

\* C20: a built tree passes validateMerkleTree: it has one level for one leaf and
\* otherwise the number of levels with 2^(levels-2) < leafCount <= 2^(levels-1), and
\* its top level is the root alone; no createBlock run ends with the invalid-tree error.
C20_ValidateAcceptsBuiltTree ==
    /\ merkleTree # <<>>
           => LET levels == Len(merkleTree[1].tree)
                  n == merkleTree[1].leafCount
              IN  /\ validateMerkleTree(merkleTree[1])
                  /\ n = Len(treeInput)
                  /\ n = 1 => levels = 1
                  /\ n > 1 => levels >= 2 /\ 2 ^ (levels - 2) < n /\ n <= 2 ^ (levels - 1)
                  /\ merkleTree[1].tree[levels] = <<merkleTree[1].root>>
    /\ \A c \in Calls : calls[c].error # "Invalid Merkle tree generated"

C20_Witness ==
    /\ merkleTree # <<>>
    /\ merkleTree[1].leafCount = 13
    /\ Len(merkleTree[1].tree) = 5
    /\ validateMerkleTree(merkleTree[1])

\* C21: combineHashes gives the same hash for a pair in either order (any two
\* hashes of a built tree), and the result of verifyMerkleProof on the proof and the
\* leaf hash in hand (genuine, altered or cut short) is the same for every leaf index.
C21_CombineCommutative ==
    /\ treePhase = "built"
           => \A a, b \in knownHashes : combineHashes(a, b) = combineHashes(b, a)
    /\ treePhase \in {"proved", "verified", "tampered", "reverified", "forged", "checked"}
           => \A j \in 0..MaxLeaves :
                  verifyMerkleProof(proof, merkleTree[1].root, claimedLeaf, j)
                      = verifyMerkleProof(proof, merkleTree[1].root, claimedLeaf, leafIndex)

\* A proof of three hashes for a leaf at an odd index verified, and verifies for
\* the even index 0 as well.
C21_Witness ==
    /\ treePhase = "verified"
    /\ isValid
    /\ Len(proof) >= 3
    /\ leafIndex % 2 = 1
    /\ verifyMerkleProof(proof, merkleTree[1].root, claimedLeaf, 0)

\* C26: for a built tree and a leaf index, the contract's verifyComplaintInBlock, for
\* a block registered with the tree's root, returns on the leaf hash, the generated
\* proof and the index what verifyMerkleProof of the backend returns on them.
C26_VerifierCompatibility ==
    treePhase = "verified"
        => verifyComplaintInBlock(merkleTree[1].root, claimedLeaf, proof, leafIndex) = isValid

C28_ProofSoundness ==
    (treePhase = "checked" /\ isValid)
        => \E k \in 1..Len(merkleTree[1].leaves) : merkleTree[1].leaves[k].hash = claimedLeaf

(***************************************************************************)
(* Claims about classifyComplaints (checked under SpecClassify)            *)
(***************************************************************************)
\* The sum of f[1], ..., f[n].
RECURSIVE sumOver(_, _)
sumOver(n, f) == IF n = 0 THEN 0 ELSE f[n] + sumOver(n - 1, f)

\* C11: the top category of a non-empty list is the category with the highest
\* weighted score count x average weight and, when several categories have that
\* score, the one among them that was seen first in the input.
C11_TopCategory ==
    classResult # <<>>
        => LET groups == classResult[1].categoryGroups
               best == Max({weightedScore(groups[k]) : k \in 1..Len(groups)})
               first == CHOOSE k \in 1..Len(groups) :
                            /\ weightedScore(groups[k]) = best
                            /\ \A j \in 1..(k - 1) : weightedScore(groups[j]) < best
           IN  classResult[1].topCategory = groups[first].category

C13_Aggregation ==
    classResult # <<>>
        => LET res == classResult[1]
               n == Len(classInput)
               weight == [k \in 1..n |-> res.processedComplaints[k].priorityScore]
           IN  /\ Len(res.processedComplaints) = n
               /\ idsOf(res.processedComplaints) = idsOf(classInput)
               /\ res.totalPriorityScore = sumOver(n, weight)
               /\ \A k \in 1..n :
                      \E g \in 1..Len(res.categoryGroups) :
                          res.categoryGroups[g].category = classInput[k].category
               /\ \A g, h \in 1..Len(res.categoryGroups) :
                      res.categoryGroups[g].category = res.categoryGroups[h].category => g = h
               /\ \A g \in 1..Len(res.categoryGroups) :
                      LET group == res.categoryGroups[g]
                          own == [k \in 1..n |->
                                     IF classInput[k].category = group.category THEN 1 ELSE 0]
                          ownWeight == [k \in 1..n |-> own[k] * weight[k]]
                      IN  /\ group.count = sumOver(n, own)
                          /\ group.count >= 1
                          /\ group.complaints =
                                 SelectSeq(idsOf(classInput),
                                           LAMBDA id : classInput[id].category = group.category)
                          /\ group.totalPriorityScore = sumOver(n, ownWeight)
                          /\ group.averageSentiment =
                                 [num |-> sumOver(n, ownWeight), den |-> sumOver(n, own)]

\* Severities 0.1, 0.4 and 0.8 in one category: weights 3, 2, 1, total 6, average 6/3.
C13_Witness ==
    /\ classResult # <<>>
    /\ [k \in 1..Len(classInput) |-> classInput[k].ai_sentiment] = <<10, 40, 80>>
    /\ Len(classResult[1].categoryGroups) = 1
    /\ classResult[1].categoryGroups[1].totalPriorityScore = 6
    /\ classResult[1].categoryGroups[1].averageSentiment = [num |-> 6, den |-> 3]

\* C29: for a non-empty list, the counts of the categories add up to the number of
\* complaints, so do the three level counts of the batch, each category's level counts
\* add up to its count, the categories' total priority scores add up to the total of
\* the batch, which lies between the number of complaints and three times it, and the
\* top category is not null and is the category of one of the complaints.
C29_Conservation ==
    classResult # <<>>
        => LET res == classResult[1]
               n == Len(classInput)
               groups == res.categoryGroups
               counts == [g \in 1..Len(groups) |-> groups[g].count]
               totals == [g \in 1..Len(groups) |-> groups[g].totalPriorityScore]
           IN  /\ sumOver(Len(groups), counts) = n
               /\ Len(res.sentimentStats.critical) + Len(res.sentimentStats.high)
                      + Len(res.sentimentStats.normal) = n
               /\ \A g \in 1..Len(groups) :
                      groups[g].sentimentBreakdown.critical + groups[g].sentimentBreakdown.high
                          + groups[g].sentimentBreakdown.normal = groups[g].count
               /\ sumOver(Len(groups), totals) = res.totalPriorityScore
               /\ n <= res.totalPriorityScore
               /\ res.totalPriorityScore <= 3 * n
               /\ res.topCategory # None
               /\ \E k \in 1..n : classInput[k].category = res.topCategory

\* Three complaints of three categories, one of each level.
C29_Witness ==
    /\ classResult # <<>>
    /\ Len(classResult[1].categoryGroups) = 3
    /\ classResult[1].totalPriorityScore = 6
    /\ \A g \in 1..3 : classResult[1].categoryGroups[g].count = 1

====
